---- MODULE Spec2Model ----
(***************************************************************************)
(* A model of tangerine/client.py: the api_response decorator, the GET and *)
(* POST primitives of TangerineClient, the login() scope, the decorated    *)
(* read and write operations and download_ofx.                             *)
(*                                                                         *)
(* The Session transport, the bank's servers and TangerineLoginFlow        *)
(* (tangerine/login.py) are the environment: every HTTP response is an     *)
(* input drawn from a small set, and the login flow and the server's token *)
(* policy follow the written description of the system.                    *)
(***************************************************************************)
EXTENDS Integers, Sequences, FiniteSets, TLC

VARIABLES
    pc,            \* where the caller is: "idle", "body" (inside `with login()`), "raised"
    cookies,       \* session.cookies: cookie name -> value
    serverTokens,  \* the transaction tokens the server currently honours
    captured,      \* history: number of the token captured by the last successful
                   \* start() and not invalidated since, 0 when there is none
    logins,        \* number of login_flow.start() calls so far
    scopeLog,      \* events of the current / most recent login() scope
    bodyExc,       \* the exception the body of the scope raised, NoExc when none
    endExc,        \* the exception login_flow.end() raised, NoExc when none
    propagated,    \* what the caller of `with login()` saw when the scope was left
    lastOp,        \* the most recent API operation called
    lastArgs,      \* its arguments
    result,        \* its outcome: a return value or a raised exception
    calls,         \* the HTTP requests it issued, in order, with their responses
    files,         \* the local file system: file name -> text
    opCount        \* number of API operations called so far

vars == <<pc, cookies, serverTokens, captured, logins, scopeLog, bodyExc, endExc,
          propagated, lastOp, lastArgs, result, calls, files, opCount>>

(***************************************************************************)
(* Bounds of the model.                                                    *)
(***************************************************************************)
MaxLogins == 2
MaxOps == 2
MaxDownloads == 1

(***************************************************************************)
(* Python values. A str, a dict and None are tagged so that any two values *)
(* can be compared.                                                        *)
(***************************************************************************)
None == [py |-> "None"]
Str(s) == [py |-> "str", v |-> s]
Dict(items) == [py |-> "dict", items |-> items]
Token(n) == [py |-> "str", token |-> n]

\* The outcome of a call: a returned value or a raised exception with its argument.
Return(v) == [kind |-> "return", exc |-> "", value |-> v]
Raise(e, v) == [kind |-> "raise", exc |-> e, value |-> v]
NoExc == [kind |-> "none", exc |-> "", value |-> None]

\* obj[key]
Subscript(obj, key) ==
    IF obj.py # "dict" THEN Raise("TypeError", obj)
    ELSE IF key \notin DOMAIN obj.items THEN Raise("KeyError", Str(key))
    ELSE Return(obj.items[key])

\* session.cookies.get(name): the cookie's value, None when the jar has none
CookieGet(jar, name) == IF name \in DOMAIN jar THEN jar[name] ELSE None

(***************************************************************************)
(* date.strftime                                                           *)
(***************************************************************************)
Digit(n) ==
    CASE n = 0 -> "0" [] n = 1 -> "1" [] n = 2 -> "2" [] n = 3 -> "3" [] n = 4 -> "4"
      [] n = 5 -> "5" [] n = 6 -> "6" [] n = 7 -> "7" [] n = 8 -> "8" [] n = 9 -> "9"

Pad2(n) == Digit((n \div 10) % 10) \o Digit(n % 10)
Pad4(n) == Pad2(n \div 100) \o Pad2(n % 100)

\* strftime('%Y%m%d'), for four-digit years
StrfYmd(date) == Pad4(date.year) \o Pad2(date.month) \o Pad2(date.day)
\* strftime('%Y-%m-%dT00:00:00.000Z')
StrfIso(date) ==
    Pad4(date.year) \o "-" \o Pad2(date.month) \o "-" \o Pad2(date.day) \o "T00:00:00.000Z"
\* strftime('%Y-%m-%d')
StrfDashed(date) == Pad4(date.year) \o "-" \o Pad2(date.month) \o "-" \o Pad2(date.day)

(***************************************************************************)
(* The api_response decorator.                                             *)
(***************************************************************************)
\* (variant: the status is never looked at)
api_response_unchecked(root_key, check_response_status, response_json) ==
    IF root_key = "" THEN Return(response_json)
    ELSE Subscript(response_json, root_key)

\* lines 23-27 of the wrapper, applied to the value fn returned
api_response(root_key, check_response_status, response_json) ==
    LET rs == Subscript(response_json, "response_status")
        sc == Subscript(rs.value, "status_code")
    IN  IF check_response_status /\ rs.kind = "raise" THEN rs
        ELSE IF check_response_status /\ sc.kind = "raise" THEN sc
        ELSE IF check_response_status /\ sc.value # Str("SUCCESS")
            THEN Raise("APIResponseError", response_json)
        ELSE IF root_key = "" THEN Return(response_json)
        ELSE Subscript(response_json, root_key)

\* the wrapper: an exception of fn passes through, a returned value is decoded
wrapper(root_key, check_response_status, fn_outcome) ==
    IF fn_outcome.kind = "raise" THEN fn_outcome
    ELSE api_response(root_key, check_response_status, fn_outcome.value)

(***************************************************************************)
(* HTTP responses (requests.Response).                                     *)
(***************************************************************************)
\* response.raise_for_status() raises HTTPError for a 4xx or 5xx status only
raise_for_status(response) == response.status_code >= 400 /\ response.status_code < 600

\* response.json(): the decoded body, ValueError when the body is not JSON
json(response) ==
    IF response.body.py = "dict" THEN Return(response.body)
    ELSE Raise("JSONDecodeError", None)

Is2xx(response) == response.status_code >= 200 /\ response.status_code < 300

\* a request as the Session sent it, with the response it got
Request(method, host, path, token, data, response) ==
    [method |-> method, host |-> host, path |-> path, token |-> token,
     data |-> data, response |-> response]

ApiHost == "secure.tangerine.ca"
OfxHost == "ofx.tangerine.ca"

\* _api_get: GET, raise_for_status, response.json()
\* (variant: raise_for_status() left out)
api_get_without_raise_for_status(response) == json(response)
_api_get(response) ==
    IF raise_for_status(response) THEN Raise("HTTPError", None)
    ELSE json(response)

\* line 47: the token put in the x-transaction-token header
\* (variant: the wrong cookie is read)
transaction_token_wrong_cookie(jar) == CookieGet(jar, "XSRF-TOKEN")
transaction_token(jar) == CookieGet(jar, "TRANSACTION_TOKEN")

\* _api_post: POST with the token header, raise_for_status, return the response
_api_post(response) ==
    IF raise_for_status(response) THEN Raise("HTTPError", None)
    ELSE Return(response)

(***************************************************************************)
(* The decorated operations: the arguments of @api_response and the path.  *)
(***************************************************************************)
ReadOps == {"me", "list_accounts", "get_account", "list_transactions",
            "list_pending_transactions", "list_email_recipients",
            "list_move_money_accounts", "_get_transaction_download_token"}
WriteOps == {"move_money", "email_money"}
DecoratedOps == ReadOps \cup WriteOps

\* @api_response(root_key, ...)
RootKey(op) ==
    CASE op = "me" -> "customer"
      [] op = "list_accounts" -> "accounts"
      [] op = "get_account" -> "account_summary"
      [] op = "list_transactions" -> "transactions"
      [] op = "list_pending_transactions" -> "pending_transactions"
      [] op = "list_email_recipients" -> "recipient"
      [] op = "list_move_money_accounts" -> ""
      [] op = "_get_transaction_download_token" -> "token"
      [] op = "move_money" -> ""
      [] op = "email_money" -> ""

\* @api_response(..., check_response_status=...)
CheckResponseStatus(op) == op # "_get_transaction_download_token"

(***************************************************************************)
(* Inputs: what the caller passes and what the servers answer.             *)
(***************************************************************************)
HttpStatuses == {200, 300, 500}
StatusCodes == {"SUCCESS", "ERROR"}
ResponseStatuses == {Dict([status_code |-> Str(s)]) : s \in StatusCodes}

AccountDetails ==
    Dict([display_name |-> Str("5223 XXXX"), account_nick_name |-> Str("Visa")])

\* the key the endpoint of op puts its payload under
PayloadKey(op) ==
    CASE op = "list_move_money_accounts" -> "accounts"
      [] op = "move_money" -> "transfers"
      [] op = "email_money" -> "emt"
      [] OTHER -> RootKey(op)

Payloads(op) ==
    CASE op = "get_account" -> {AccountDetails}
      [] op = "_get_transaction_download_token" -> {Str("dl-token")}
      [] OTHER -> {Str("p1"), Str("p2")}

Envelope(D, rs, p) == Dict([k \in D |-> IF k = "response_status" THEN rs ELSE p])

\* JSON bodies of the envelope shape, with either key possibly missing
Envelopes(op) ==
    {Envelope(D, rs, p) : D \in (SUBSET {"response_status", PayloadKey(op)}) \ {{}},
                          rs \in ResponseStatuses, p \in Payloads(op)}

NotJson == Str("<html>")
Responses(op) == [status_code : HttpStatuses, body : Envelopes(op) \cup {NotJson}]

OfxTexts == {Str("OFXHEADER:100 a"), Str("OFXHEADER:100 b")}
OfxResponses == [status_code : HttpStatuses, body : OfxTexts]

Dates == {[year |-> 2023, month |-> 1, day |-> 1], [year |-> 2023, month |-> 12, day |-> 31]}
DateRanges == {r \in [start_date : Dates, end_date : Dates] : r.start_date # r.end_date}

AccountTypes == {"CHEQUING", "SAVINGS", "CREDIT_CARD", "RSP"}
Account(type) ==
    Dict([type |-> Str(type), number |-> Str("A1"),
          display_name |-> Str("list " \o type), nickname |-> Str("my " \o type)])
Accounts == {Account(t) : t \in AccountTypes}

NoArgs == [none |-> TRUE]

\* the envelope of a response says SUCCESS
EnvelopeSuccess(response) ==
    /\ response.body.py = "dict"
    /\ "response_status" \in DOMAIN response.body.items
    /\ response.body.items["response_status"] = Dict([status_code |-> Str("SUCCESS")])

\* the server carried the request out
Succeeded(response) == Is2xx(response) /\ EnvelopeSuccess(response)

\* The server's answer to a POST: it carries the request out only when the
\* x-transaction-token header holds a token it honours.
PostResponses(op, token) ==
    IF token # None /\ token.token \in serverTokens
    THEN Responses(op)
    ELSE {r \in Responses(op) : ~Succeeded(r)}

(***************************************************************************)
(* The caller's bookkeeping around one API operation.                      *)
(***************************************************************************)
CanCall == pc \in {"idle", "body"} /\ opCount < MaxOps

Finish(op, args, res, reqs) ==
    /\ lastOp' = op
    /\ lastArgs' = args
    /\ result' = res
    /\ calls' = reqs
    /\ opCount' = opCount + 1
    /\ pc' = IF pc = "body" /\ res.kind = "raise" THEN "raised" ELSE pc
    /\ bodyExc' = IF pc = "body" /\ res.kind = "raise" THEN res ELSE bodyExc
    /\ scopeLog' = IF pc = "body" THEN Append(scopeLog, "op") ELSE scopeLog
    /\ UNCHANGED <<cookies, serverTokens, captured, logins, endExc, propagated>>

(***************************************************************************)
(* Read operations: _api_get(path) decoded by the wrapper.                 *)
(***************************************************************************)
ReadCall(op, path, response) ==
    Finish(op, NoArgs, wrapper(RootKey(op), CheckResponseStatus(op), _api_get(response)),
           <<Request("GET", ApiHost, path, None, None, response)>>)

me ==
    /\ CanCall
    /\ \E response \in Responses("me") : ReadCall("me", "/v1/customers/my", response)
    /\ UNCHANGED files

list_accounts ==
    /\ CanCall
    /\ \E response \in Responses("list_accounts") :
          ReadCall("list_accounts", "/pfm/v1/accounts", response)
    /\ UNCHANGED files

get_account ==
    /\ CanCall
    /\ \E account_id \in {"A1"}, response \in Responses("get_account") :
          ReadCall("get_account",
                   "/v1/accounts/" \o account_id \o "?billing-cycle-ranges=true", response)
    /\ UNCHANGED files

list_transactions ==
    /\ CanCall
    /\ \E account_ids \in {"A1"}, period \in DateRanges,
          response \in Responses("list_transactions") :
          ReadCall("list_transactions",
                   "/pfm/v1/transactions?accountIdentifiers=" \o account_ids
                     \o "&hideAuthorizedStatus=True"
                     \o "&periodFrom=" \o StrfIso(period.start_date)
                     \o "&periodTo=" \o StrfIso(period.end_date) \o "&skip=0",
                   response)
    /\ UNCHANGED files

list_pending_transactions ==
    /\ CanCall
    /\ \E response \in Responses("list_pending_transactions") :
          ReadCall("list_pending_transactions",
                   "/v1/customers/my/pending-transactions?include-mf-transactions=true",
                   response)
    /\ UNCHANGED files

list_email_recipients ==
    /\ CanCall
    /\ \E response \in Responses("list_email_recipients") :
          ReadCall("list_email_recipients", "/v1/customers/my/emt-recipients", response)
    /\ UNCHANGED files

list_move_money_accounts ==
    /\ CanCall
    /\ \E response \in Responses("list_move_money_accounts") :
          ReadCall("list_move_money_accounts",
                   "/v1/customers/my/accounts?actionCode=MOVE_MONEY", response)
    /\ UNCHANGED files

_get_transaction_download_token ==
    /\ CanCall
    /\ \E response \in Responses("_get_transaction_download_token") :
          ReadCall("_get_transaction_download_token",
                   "/v1/customers/my/security/transaction-download-token", response)
    /\ UNCHANGED files

(***************************************************************************)
(* Write operations: _api_post(path, data), print(response.json()), and no *)
(* return statement; the wrapper decodes what the function returned.       *)
(***************************************************************************)
\* the body of move_money / email_money after the POST came back
write_fn(response) ==
    LET resp == _api_post(response)
        printed == IF resp.kind = "raise" THEN resp ELSE json(resp.value)
    IN  IF printed.kind = "raise" THEN printed ELSE Return(None)

WriteCall(op, args, path, data, response) ==
    Finish(op, args, wrapper(RootKey(op), CheckResponseStatus(op), write_fn(response)),
           <<Request("POST", ApiHost, path, transaction_token(cookies), data, response)>>)

MoveMoneyArgs ==
    [account_id : {"A1"}, from_account : {"A1"}, to_account : {"A2"}, amount : {10},
     currency : {"CAD"}, when : {"NOW"}]

move_money ==
    /\ CanCall
    /\ \E args \in MoveMoneyArgs :
         \E response \in PostResponses("move_money", transaction_token(cookies)) :
            WriteCall("move_money", args,
                      "/v1/accounts/" \o args.account_id \o "/transactions/movemoney",
                      [transfers |-> [when |-> args.when, amount |-> args.amount,
                                      to_account |-> args.to_account,
                                      from_account |-> args.from_account,
                                      currency |-> args.currency],
                       validate_only |-> FALSE],
                      response)
    /\ UNCHANGED files

EmailMoneyArgs ==
    [source_account_number : {"A1"}, recipient_sequence_number : {1}, amount : {10},
     when : {"NOW"}, scheduled_date : Dates, emt_type : {"INTERAC_EMT"}]

email_money ==
    /\ CanCall
    /\ \E args \in EmailMoneyArgs :
         \E response \in PostResponses("email_money", transaction_token(cookies)) :
            WriteCall("email_money", args,
                      "/v1/accounts/" \o args.source_account_number \o "/transactions/emts",
                      [validate_only |-> FALSE,
                       emt |-> [emt_type |-> args.emt_type, amount |-> args.amount,
                                recipient_sequence_number |-> args.recipient_sequence_number,
                                message |-> "", accepted_terms_and_conditions |-> TRUE,
                                when |-> args.when,
                                scheduled_date |-> StrfDashed(args.scheduled_date)]],
                      response)
    /\ UNCHANGED files

(***************************************************************************)
(* download_ofx. One run of it is the outcome, the requests issued and the *)
(* file system it leaves. quote() and urlencode() are applied when the URL *)
(* is put together; a request records the values they are applied to.      *)
(***************************************************************************)
Run(res, reqs, fs) == [result |-> res, calls |-> reqs, files |-> fs]

\* open(local_filename, 'w') succeeds or raises
OpenOutcomes == {"ok", "OSError"}

LocalFilename(nick, start_date, end_date) ==
    nick.v \o "_" \o StrfYmd(start_date) \o "-" \o StrfYmd(end_date) \o ".QFX"

\* lines 166-176: save the text or return it
download_save(nick, period, save, response, reqs, fs) ==
    IF save
    THEN LET local_filename == LocalFilename(nick, period.start_date, period.end_date)
         IN  {IF o = "ok"
              THEN Run(Return(Str(local_filename)), reqs,
                       (local_filename :> response.body) @@ fs)
              ELSE Run(Raise("OSError", Str(local_filename)), reqs, fs)
              : o \in OpenOutcomes}
    ELSE {Run(Return(response.body), reqs, fs)}

\* (variant: the text is saved whatever the status of the download GET)
download_fetch_unchecked(account_type, display_name, nick, token, period, save, reqs, fs) ==
    UNION {LET params == [fileType |-> "QFX", ofxVersion |-> "102", sessionId |-> "tng",
                          orgName |-> "Tangerine", bankId |-> "0614", language |-> "eng",
                          acctType |-> account_type, acctNum |-> display_name,
                          acctName |-> nick, userDefined |-> token,
                          startDate |-> StrfYmd(period.start_date),
                          endDate |-> StrfYmd(period.end_date)]
               reqs2 == Append(reqs, Request("GET", OfxHost, nick.v \o ".QFX", None,
                                             params, response))
           IN  download_save(nick, period, save, response, reqs2, fs)
           : response \in OfxResponses}

\* lines 145-165: the download GET and raise_for_status
download_fetch(account_type, display_name, nick, token, period, save, reqs, fs) ==
    UNION {LET params == [fileType |-> "QFX", ofxVersion |-> "102", sessionId |-> "tng",
                          orgName |-> "Tangerine", bankId |-> "0614", language |-> "eng",
                          acctType |-> account_type, acctNum |-> display_name,
                          acctName |-> nick, userDefined |-> token,
                          startDate |-> StrfYmd(period.start_date),
                          endDate |-> StrfYmd(period.end_date)]
               reqs2 == Append(reqs, Request("GET", OfxHost, nick.v \o ".QFX", None,
                                             params, response))
           IN  IF raise_for_status(response)
               THEN {Run(Raise("HTTPError", None), reqs2, fs)}
               ELSE download_save(nick, period, save, response, reqs2, fs)
           : response \in OfxResponses}

\* line 144: token = self._get_transaction_download_token()
download_token(account_type, display_name, nick, period, save, reqs, fs) ==
    UNION {LET op == "_get_transaction_download_token"
               out == wrapper(RootKey(op), CheckResponseStatus(op), _api_get(response))
               reqs2 == Append(reqs, Request("GET", ApiHost,
                                  "/v1/customers/my/security/transaction-download-token",
                                  None, None, response))
           IN  IF out.kind = "raise"
               THEN {Run(out, reqs2, fs)}
               ELSE download_fetch(account_type, display_name, nick, out.value,
                                   period, save, reqs2, fs)
           : response \in Responses("_get_transaction_download_token")}

\* (variant: the lookup is made but the list-view fields are used)
download_credit_card_list_view(account, period, save, fs) ==
    UNION {LET out == wrapper(RootKey("get_account"), CheckResponseStatus("get_account"),
                              _api_get(response))
               reqs == <<Request("GET", ApiHost,
                                 "/v1/accounts/" \o account.items["number"].v
                                    \o "?billing-cycle-ranges=true",
                                 None, None, response)>>
           IN  IF out.kind = "raise" THEN {Run(out, reqs, fs)}
               ELSE download_token(Str("CREDITLINE"), account.items["display_name"],
                                   account.items["nickname"], period, save, reqs, fs)
           : response \in Responses("get_account")}

\* lines 136-140: the CREDIT_CARD branch, with its get_account lookup
download_credit_card(account, period, save, fs) ==
    UNION {LET out == wrapper(RootKey("get_account"), CheckResponseStatus("get_account"),
                              _api_get(response))
               reqs == <<Request("GET", ApiHost,
                                 "/v1/accounts/" \o account.items["number"].v
                                    \o "?billing-cycle-ranges=true",
                                 None, None, response)>>
               dn == Subscript(out.value, "display_name")
               nk == Subscript(out.value, "account_nick_name")
           IN  IF out.kind = "raise" THEN {Run(out, reqs, fs)}
               ELSE IF dn.kind = "raise" THEN {Run(dn, reqs, fs)}
               ELSE IF nk.kind = "raise" THEN {Run(nk, reqs, fs)}
               ELSE download_token(Str("CREDITLINE"), dn.value, nk.value,
                                   period, save, reqs, fs)
           : response \in Responses("get_account")}

\* (variant: the type is rejected only after the download token was requested)
download_ofx_runs_late_type_check(account, period, save, fs) ==
    LET type == account.items["type"]
    IN  IF type \in {Str("CHEQUING"), Str("SAVINGS")}
        THEN download_token(Str("SAVINGS"), account.items["display_name"],
                            account.items["nickname"], period, save, <<>>, fs)
        ELSE IF type = Str("CREDIT_CARD")
        THEN download_credit_card(account, period, save, fs)
        ELSE {Run(Raise("UnsupportedAccountTypeForDownload", type),
                  <<Request("GET", ApiHost,
                            "/v1/customers/my/security/transaction-download-token",
                            None, None, response)>>, fs)
              : response \in Responses("_get_transaction_download_token")}

\* lines 128-142: the branch on account['type']
download_ofx_runs(account, period, save, fs) ==
    LET type == account.items["type"]
    IN  IF type = Str("CHEQUING")
        THEN download_token(Str("SAVINGS"), account.items["display_name"],
                            account.items["nickname"], period, save, <<>>, fs)
        ELSE IF type = Str("SAVINGS")
        THEN download_token(Str("SAVINGS"), account.items["display_name"],
                            account.items["nickname"], period, save, <<>>, fs)
        ELSE IF type = Str("CREDIT_CARD")
        THEN download_credit_card(account, period, save, fs)
        ELSE {Run(Raise("UnsupportedAccountTypeForDownload", type), <<>>, fs)}

download_ofx ==
    /\ CanCall
    /\ opCount < MaxDownloads
    /\ \E account \in Accounts, period \in DateRanges, save \in BOOLEAN :
         \E run \in download_ofx_runs(account, period, save, files) :
            /\ Finish("download_ofx",
                      [account |-> account, start_date |-> period.start_date,
                       end_date |-> period.end_date, save |-> save],
                      run.result, run.calls)
            /\ files' = run.files

(***************************************************************************)
(* TangerineLoginFlow and the server's sessions.                           *)
(***************************************************************************)
\* start(): the login sequence succeeds and the token cookie is set; or the
\* token cookie is absent after the last step; or a request fails
StartOutcomes == {"ok", "no_token", "transport"}
\* end(): the logout call succeeds, or fails in transport
EndOutcomes == {"ok", "transport"}

login_flow_start(outcome) ==
    CASE outcome = "ok" ->
            /\ logins' = logins + 1
            /\ cookies' = ("TRANSACTION_TOKEN" :> Token(logins + 1))
            /\ serverTokens' = {logins + 1}
            /\ captured' = logins + 1
      [] outcome = "no_token" ->
            /\ logins' = logins + 1
            /\ cookies' = <<>>
            /\ serverTokens' = {}
            /\ captured' = 0
      [] outcome = "transport" ->
            /\ logins' = logins + 1
            /\ UNCHANGED <<cookies, serverTokens, captured>>

StartResult(outcome) ==
    CASE outcome = "ok" -> Return(None)
      [] outcome = "no_token" -> Raise("AuthenticationError", None)
      [] outcome = "transport" -> Raise("HTTPError", None)

\* the logout call, after which the server honours no token of this session;
\* the cookie jar keeps the token cookie or loses it
login_flow_end(outcome, keep_cookie) ==
    CASE outcome = "ok" ->
            /\ serverTokens' = {}
            /\ captured' = 0
            /\ cookies' = IF keep_cookie THEN cookies ELSE <<>>
      [] outcome = "transport" ->
            /\ UNCHANGED <<cookies, serverTokens, captured>>

EndResult(outcome) ==
    CASE outcome = "ok" -> Return(None)
      [] outcome = "transport" -> Raise("HTTPError", None)

\* the server lets the session expire
Expire ==
    /\ serverTokens # {}
    /\ serverTokens' = {}
    /\ captured' = 0
    /\ UNCHANGED <<pc, cookies, logins, scopeLog, bodyExc, endExc, propagated, lastOp,
                   lastArgs, result, calls, files, opCount>>

(***************************************************************************)
(* TangerineClient.login(): the scope of `with client.login():`.           *)
(***************************************************************************)
\* (variant: an exception of start() is swallowed and the body begins)
login_enter_swallowing ==
    /\ pc = "idle"
    /\ logins < MaxLogins
    /\ \E outcome \in StartOutcomes :
         /\ login_flow_start(outcome)
         /\ pc' = "body"
         /\ scopeLog' = IF StartResult(outcome).kind = "raise"
                        THEN <<"start raised">> ELSE <<"start">>
         /\ propagated' = NoExc
    /\ bodyExc' = NoExc
    /\ endExc' = NoExc
    /\ UNCHANGED <<lastOp, lastArgs, result, calls, files, opCount>>

\* lines 65-67: start(), then the body begins at the yield
login_enter ==
    /\ pc = "idle"
    /\ logins < MaxLogins
    /\ \E outcome \in StartOutcomes :
         /\ login_flow_start(outcome)
         /\ IF StartResult(outcome).kind = "raise"
            THEN /\ pc' = "idle"
                 /\ scopeLog' = <<"start raised">>
                 /\ propagated' = StartResult(outcome)
            ELSE /\ pc' = "body"
                 /\ scopeLog' = <<"start">>
                 /\ propagated' = NoExc
    /\ bodyExc' = NoExc
    /\ endExc' = NoExc
    /\ UNCHANGED <<lastOp, lastArgs, result, calls, files, opCount>>

\* (variant: no finally, end() runs only when the body finished normally)
login_exit_without_finally ==
    /\ pc \in {"body", "raised"}
    /\ IF pc = "raised"
       THEN /\ UNCHANGED <<cookies, serverTokens, captured, endExc, scopeLog>>
            /\ propagated' = bodyExc
       ELSE /\ \E outcome \in EndOutcomes, keep_cookie \in BOOLEAN :
                 /\ login_flow_end(outcome, keep_cookie)
                 /\ endExc' = IF EndResult(outcome).kind = "raise"
                              THEN EndResult(outcome) ELSE NoExc
                 /\ propagated' = IF EndResult(outcome).kind = "raise"
                                  THEN EndResult(outcome) ELSE bodyExc
            /\ scopeLog' = Append(scopeLog, "end")
    /\ pc' = "idle"
    /\ UNCHANGED <<logins, bodyExc, lastOp, lastArgs, result, calls, files, opCount>>

\* lines 68-71: the body is left, normally or by an exception; finally: end()
login_exit ==
    /\ pc \in {"body", "raised"}
    /\ \E outcome \in EndOutcomes, keep_cookie \in BOOLEAN :
         /\ login_flow_end(outcome, keep_cookie)
         /\ endExc' = IF EndResult(outcome).kind = "raise" THEN EndResult(outcome) ELSE NoExc
         /\ propagated' = IF EndResult(outcome).kind = "raise" THEN EndResult(outcome)
                          ELSE bodyExc
    /\ scopeLog' = Append(scopeLog, "end")
    /\ pc' = "idle"
    /\ UNCHANGED <<logins, bodyExc, lastOp, lastArgs, result, calls, files, opCount>>

(***************************************************************************)
(* The specification.                                                      *)
(***************************************************************************)
Init ==
    /\ pc = "idle"
    /\ cookies = <<>>
    /\ serverTokens = {}
    /\ captured = 0
    /\ logins = 0
    /\ scopeLog = <<>>
    /\ bodyExc = NoExc
    /\ endExc = NoExc
    /\ propagated = NoExc
    /\ lastOp = ""
    /\ lastArgs = NoArgs
    /\ result = NoExc
    /\ calls = <<>>
    /\ files = <<>>
    /\ opCount = 0

\* a caller that logs in and out and moves money
SessionNext ==
    \/ login_enter
    \/ login_exit
    \/ Expire
    \/ me
    \/ move_money
    \/ email_money

\* a caller that uses the decorated operations
OperationsNext ==
    \/ me
    \/ list_accounts
    \/ get_account
    \/ list_transactions
    \/ list_pending_transactions
    \/ list_email_recipients
    \/ list_move_money_accounts
    \/ _get_transaction_download_token
    \/ move_money
    \/ email_money

\* a caller that downloads statements
DownloadNext == download_ofx

Next == SessionNext \/ OperationsNext \/ DownloadNext

Spec == Init /\ [][Next]_vars
SpecSession == Init /\ [][SessionNext]_vars
SpecOperations == Init /\ [][OperationsNext]_vars
SpecDownload == Init /\ [][DownloadNext]_vars

(***************************************************************************)
(* Properties of the decoder and of the decorated operations.              *)
(***************************************************************************)
\* the status_code of an envelope, None when the envelope carries none
StatusCodeOf(env) ==
    IF /\ "response_status" \in DOMAIN env.items
       /\ "status_code" \in DOMAIN env.items["response_status"].items
    THEN env.items["response_status"].items["status_code"]
    ELSE None

\* the last operation issued one request, the transport raised nothing and the
\* body was a JSON object
GotEnvelope ==
    /\ Len(calls) = 1
    /\ calls[1].response.status_code < 400
    /\ calls[1].response.body.py = "dict"

StatusCheckedReads == ReadOps \ {"_get_transaction_download_token"}

\* C1: with check_response_status=True the wrapper returns the value under
\* root_key unchanged (the whole envelope when root_key is empty) for an
\* envelope whose status_code is SUCCESS, and raises APIResponseError carrying
\* the unmodified envelope for an envelope with any other status_code.
C1_DecoderContract ==
    (lastOp \in StatusCheckedReads /\ GotEnvelope) =>
        LET env == calls[1].response.body
            key == RootKey(lastOp)
            sc == StatusCodeOf(env)
        IN  /\ (sc = Str("SUCCESS") /\ key = "") => result = Return(env)
            /\ (sc = Str("SUCCESS") /\ key # "" /\ key \in DOMAIN env.items)
                  => result = Return(env.items[key])
            /\ (sc # None /\ sc # Str("SUCCESS"))
                  => result = Raise("APIResponseError", env)

\* a non-SUCCESS envelope with its payload was decoded: the error carries both
C1_Witness ==
    /\ lastOp = "me"
    /\ GotEnvelope
    /\ StatusCodeOf(calls[1].response.body) = Str("ERROR")
    /\ "customer" \in DOMAIN calls[1].response.body.items
    /\ result = Raise("APIResponseError", calls[1].response.body)

\* C8 as written: a non-2xx status of a request to the API host raises the
\* transport error, so the operation neither raises APIResponseError nor returns.
C8_Non2xxRaisesTransportError ==
    lastOp \in DecoratedOps =>
        \A i \in 1..Len(calls) :
            (calls[i].host = ApiHost /\ ~Is2xx(calls[i].response))
                => result = Raise("HTTPError", None)

\* C8 amended: a 4xx or 5xx status of a request to the API host raises the
\* transport error before the body is decoded, whatever the body holds.
C8_ErrorStatusRaisesTransportError ==
    lastOp \in DecoratedOps =>
        \A i \in 1..Len(calls) :
            (calls[i].host = ApiHost /\ calls[i].response.status_code >= 400
                                     /\ calls[i].response.status_code < 600)
                => result = Raise("HTTPError", None)

\* a 500 response whose body is a non-SUCCESS envelope ended in the transport error
C8_Witness ==
    /\ lastOp = "list_accounts"
    /\ Len(calls) = 1
    /\ calls[1].response.status_code = 500
    /\ calls[1].response.body.py = "dict"
    /\ StatusCodeOf(calls[1].response.body) = Str("ERROR")
    /\ result = Raise("HTTPError", None)

\* C7: move_money and email_money are decoded like every other operation: a
\* 2xx response with a SUCCESS envelope returns the envelope, a 2xx response
\* with any other status_code raises APIResponseError carrying the envelope.
C7_WriteOperationsDecoded ==
    (lastOp \in WriteOps /\ Len(calls) = 1 /\ Is2xx(calls[1].response)
        /\ calls[1].response.body.py = "dict"
        /\ StatusCodeOf(calls[1].response.body) # None) =>
        LET env == calls[1].response.body
        IN  IF StatusCodeOf(env) = Str("SUCCESS")
            THEN result = Return(env)
            ELSE result = Raise("APIResponseError", env)

\* the POST was carried out and its envelope said SUCCESS, and move_money raised
C7_Witness ==
    /\ lastOp = "move_money"
    /\ Len(calls) = 1
    /\ Succeeded(calls[1].response)
    /\ result.kind = "raise"
    /\ result.exc = "TypeError"

\* the request for the download token among the requests of download_ofx
TokenRequests ==
    {i \in 1..Len(calls) :
        calls[i].path = "/v1/customers/my/security/transaction-download-token"}

\* C9: _get_transaction_download_token returns the value under "token" whatever
\* the status_code, or without any response_status, and download_ofx goes on to
\* the download GET with it; every other decorated operation enforces
\* status_code == "SUCCESS": it raises APIResponseError on any other status_code
\* and returns only for SUCCESS.
C9_OnlyTokenRetrievalUnchecked ==
    /\ (lastOp = "_get_transaction_download_token" /\ GotEnvelope
          /\ "token" \in DOMAIN calls[1].response.body.items)
          => result = Return(calls[1].response.body.items["token"])
    /\ lastOp = "download_ofx" =>
          \A i \in TokenRequests :
              (/\ calls[i].response.status_code < 400
               /\ calls[i].response.body.py = "dict"
               /\ "token" \in DOMAIN calls[i].response.body.items)
              => /\ Len(calls) = i + 1
                 /\ calls[i + 1].host = OfxHost
                 /\ calls[i + 1].data.userDefined = calls[i].response.body.items["token"]
    /\ (lastOp \in DecoratedOps \ {"_get_transaction_download_token"} /\ GotEnvelope) =>
          LET env == calls[1].response.body
          IN  /\ (StatusCodeOf(env) # None /\ StatusCodeOf(env) # Str("SUCCESS"))
                    => result = Raise("APIResponseError", env)
              /\ result.kind = "return" => StatusCodeOf(env) = Str("SUCCESS")

(***************************************************************************)
(* Properties of the login() scope and of the token sent with a POST.      *)
(***************************************************************************)
EndCalls == Cardinality({i \in 1..Len(scopeLog) : scopeLog[i] = "end"})

\* C2: when start() returned normally, end() is called exactly once when the
\* scope is left, after the body's last operation, whether the body finished
\* or raised; the body's exception reaches the caller when end() raised nothing.
C2_EndRunsOnceOnExit ==
    /\ pc \in {"body", "raised"} => (scopeLog[1] = "start" /\ EndCalls = 0)
    /\ (pc = "idle" /\ Len(scopeLog) > 0 /\ scopeLog[1] = "start") =>
          /\ EndCalls = 1
          /\ scopeLog[Len(scopeLog)] = "end"
          /\ (bodyExc # NoExc /\ endExc = NoExc) => propagated = bodyExc

\* the body ran an operation that raised, end() ran after it, the exception got out
C2_Witness ==
    /\ pc = "idle"
    /\ scopeLog = <<"start", "op", "end">>
    /\ bodyExc.kind = "raise"
    /\ endExc = NoExc
    /\ propagated = bodyExc

\* C4: when start() raises inside login(), the error reaches the caller and
\* the body of the scope never starts: no operation runs in that scope.
C4_FailedStartSkipsBody ==
    /\ (Len(scopeLog) > 0 /\ scopeLog[1] = "start raised") =>
          /\ pc = "idle"
          /\ Len(scopeLog) = 1
          /\ propagated \in {Raise("AuthenticationError", None), Raise("HTTPError", None)}
    /\ pc \in {"body", "raised"} => scopeLog[1] = "start"

\* the token cookie was absent after the last login step
C4_Witness ==
    /\ pc = "idle"
    /\ scopeLog = <<"start raised">>
    /\ "TRANSACTION_TOKEN" \notin DOMAIN cookies
    /\ propagated = Raise("AuthenticationError", None)

\* C3: the x-transaction-token header of a POST is the TRANSACTION_TOKEN cookie
\* the Session holds when the POST is made (None when it holds none), and the
\* server carries a POST out only with the token captured by a successful
\* login that has not been invalidated since.
C3_PostsCarryTheSessionToken ==
    [][(opCount' = opCount + 1 /\ lastOp' \in WriteOps) =>
          /\ Len(calls') = 1
          /\ calls'[1].method = "POST"
          /\ calls'[1].token = CookieGet(cookies, "TRANSACTION_TOKEN")
          /\ Succeeded(calls'[1].response) =>
                (captured # 0 /\ calls'[1].token = Token(captured))]_vars

\* a POST carried out with the token of the second login
C3_Witness ==
    /\ lastOp \in WriteOps
    /\ Len(calls) = 1
    /\ Succeeded(calls[1].response)
    /\ captured = 2
    /\ calls[1].token = Token(2)

(***************************************************************************)
(* Properties of download_ofx.                                             *)
(***************************************************************************)
DownloadStep == opCount' = opCount + 1 /\ lastOp' = "download_ofx"
SupportedTypes == {Str("CHEQUING"), Str("SAVINGS"), Str("CREDIT_CARD")}

\* C5: for an account type outside CHEQUING, SAVINGS, CREDIT_CARD download_ofx
\* raises UnsupportedAccountTypeForDownload with the type, issues no request
\* and writes no file.
C5_UnsupportedTypeFailsFirst ==
    [][(DownloadStep /\ lastArgs'.account.items["type"] \notin SupportedTypes) =>
          /\ result' = Raise("UnsupportedAccountTypeForDownload",
                             lastArgs'.account.items["type"])
          /\ calls' = <<>>
          /\ files' = files]_vars

C5_Witness ==
    /\ lastOp = "download_ofx"
    /\ lastArgs.account.items["type"] = Str("RSP")
    /\ result = Raise("UnsupportedAccountTypeForDownload", Str("RSP"))
    /\ calls = <<>>

LookupRequests ==
    {i \in 1..Len(calls) :
        calls[i].path = "/v1/accounts/" \o lastArgs.account.items["number"].v
                           \o "?billing-cycle-ranges=true"}
OfxRequests == {i \in 1..Len(calls) : calls[i].host = OfxHost}

\* C6: download_ofx looks the account up with get_account exactly when the
\* type is CREDIT_CARD. CHEQUING and SAVINGS download as "SAVINGS" under the
\* account's own display_name and nickname; for CREDIT_CARD the lookup comes
\* before the token request and the download GET, which carry the lookup's
\* display_name and account_nick_name.
C6_LookupOnlyForCreditCard ==
    lastOp = "download_ofx" =>
        LET account == lastArgs.account
            type == account.items["type"]
        IN  /\ (LookupRequests # {}) <=> (type = Str("CREDIT_CARD"))
            /\ type \in {Str("CHEQUING"), Str("SAVINGS")} =>
                  \A i \in OfxRequests :
                      /\ calls[i].data.acctType = Str("SAVINGS")
                      /\ calls[i].data.acctNum = account.items["display_name"]
                      /\ calls[i].data.acctName = account.items["nickname"]
            /\ type = Str("CREDIT_CARD") =>
                  /\ LookupRequests = {1}
                  /\ \A i \in OfxRequests :
                        LET details == calls[1].response.body.items["account_summary"]
                        IN  /\ calls[i].data.acctNum = details.items["display_name"]
                            /\ calls[i].data.acctName = details.items["account_nick_name"]

\* a credit card download: lookup, token, download GET with the lookup's names
C6_Witness ==
    /\ lastOp = "download_ofx"
    /\ lastArgs.account.items["type"] = Str("CREDIT_CARD")
    /\ Len(calls) = 3
    /\ LookupRequests = {1}
    /\ TokenRequests = {2}
    /\ OfxRequests = {3}
    /\ calls[3].data.acctName = Str("Visa")
    /\ calls[3].data.acctName # lastArgs.account.items["nickname"]
    /\ result.kind = "return"

\* the step a request belongs to
StepOf(c) ==
    IF c.host = OfxHost THEN "get"
    ELSE IF c.path = "/v1/customers/my/security/transaction-download-token" THEN "token"
    ELSE "lookup"

\* the step got an answer download_ofx goes on from
Passed(c) ==
    CASE StepOf(c) = "get" -> c.response.status_code < 400
      [] StepOf(c) = "token" ->
            /\ c.response.status_code < 400
            /\ c.response.body.py = "dict"
            /\ "token" \in DOMAIN c.response.body.items
      [] StepOf(c) = "lookup" ->
            /\ c.response.status_code < 400
            /\ c.response.body.py = "dict"
            /\ StatusCodeOf(c.response.body) = Str("SUCCESS")
            /\ "account_summary" \in DOMAIN c.response.body.items

StepsFor(type) ==
    IF type = Str("CREDIT_CARD") THEN <<"lookup", "token", "get">>
    ELSE IF type \in SupportedTypes THEN <<"token", "get">>
    ELSE <<>>

\* C10: the file {nickname}_{YYYYMMDD}-{YYYYMMDD}.QFX is written only with
\* save true and only after the type check, the lookup (CREDIT_CARD), the
\* token request and the download GET succeeded, in that order; a step that
\* raises ends the operation with no file written; save=False writes no file
\* and returns the text, save=True returns the file name.
C10_FileWrittenLast ==
    [][DownloadStep =>
          LET a == lastArgs'
              steps == StepsFor(a.account.items["type"])
              n == Len(calls')
              complete == /\ n = Len(steps)
                          /\ n > 0
                          /\ \A i \in 1..n : Passed(calls'[i])
              name == calls'[n].data.acctName.v \o "_" \o StrfYmd(a.start_date)
                         \o "-" \o StrfYmd(a.end_date) \o ".QFX"
              text == calls'[n].response.body
          IN  /\ n <= Len(steps)
              /\ \A i \in 1..n : StepOf(calls'[i]) = steps[i]
              /\ \A i \in 1..(n - 1) : Passed(calls'[i])
              /\ ~complete => (result'.kind = "raise" /\ files' = files)
              /\ result'.kind = "raise" => files' = files
              /\ files' # files =>
                    (a.save /\ complete /\ files' = (name :> text) @@ files)
              /\ (~a.save) =>
                    (files' = files /\ (complete => result' = Return(text)))
              /\ (a.save /\ result'.kind = "return") =>
                    /\ complete
                    /\ result' = Return(Str(name))
                    /\ name \in DOMAIN files' /\ files'[name] = text
              /\ (/\ a.save /\ result'.kind = "return"
                  /\ a.account = Account("CHEQUING")
                  /\ a.start_date = [year |-> 2023, month |-> 1, day |-> 1]) =>
                    result' = Return(Str("my CHEQUING_20230101-20231231.QFX"))]_vars

\* a credit card statement saved under the lookup's nickname
C10_Witness ==
    /\ lastOp = "download_ofx"
    /\ lastArgs.save
    /\ lastArgs.account.items["type"] = Str("CREDIT_CARD")
    /\ Len(calls) = 3
    /\ result = Return(Str("Visa_20231231-20230101.QFX"))
    /\ "Visa_20231231-20230101.QFX" \in DOMAIN files
    /\ files["Visa_20231231-20230101.QFX"] = calls[3].response.body

====
